---- MODULE Spec2Model ----
(***************************************************************************)
(* State-machine model of the sudoku solver (src/solver.py) as driven by   *)
(* the application (src/app.py).  One run of solve_sudoku is unfolded into *)
(* its loop iterations: the forward pass, the backward steps of the        *)
(* backtrack loop and the iterations of the re-fill loop in                *)
(* modify_previous_slots.                                                  *)
(***************************************************************************)
EXTENDS Integers, Sequences, FiniteSets, TLC

(***************************************************************************)
(* Program constants.                                                      *)
(***************************************************************************)
\* side length of the puzzle: the modulus of the column arithmetic
N == 9
\* side length of a box: the modulus in current_grid
B == 3
\* pick_input_num scans only when chosen_num < 10; values above 9 are markers
Limit == 10
\* change_cell_num cycles a clicked cell through 0..9
Cycle == 10

Idx == 0 .. (N - 1)
Digits == 1 .. (N)

(***************************************************************************)
(* Bounds of the input family.                                             *)
(***************************************************************************)
\* inputs without an extra given: up to MaxBlank trailing cells are empty
MaxBlank == 81
\* inputs with an extra given: up to MaxOverrideBlank trailing cells are empty
MaxOverrideBlank == 18
\* number of consecutive solve_sudoku calls on the same grid
MaxCalls == 2
\* termination is checked on inputs with up to MaxFairBlank trailing cells empty
MaxFairBlank == 10
\* the navigators are applied to fixed sets with a run of up to MaxRun fixed
\* cells, one free cell and a second run of up to MaxSecondRun fixed cells
MaxRun == 10
MaxSecondRun == 2
\* the application takes up to MaxClicks cell clicks between two resets
MaxClicks == 2

VARIABLES
    puzzle,               \* the 9x9 grid, mutated in place
    fixed_num_locations,  \* row -> columns of the given cells
    row, index,           \* loop variables of the forward pass
    current_row, current_index, current_num,  \* cursor of the backtrack loop
    pc,                   \* position of control inside solve_sudoku
    raised,               \* exception that ended the call, if any
    puzzle0,              \* the grid as it was when the call began
    lastPick,             \* the most recent call of pick_input_num
    calls,                \* number of solve_sudoku calls begun so far
    lastNav,              \* the most recent call of a slot navigator
    backtrack_point,      \* the slot of the last backward step that found a digit
    solve_button,         \* state of the Solve button
    reset_button,         \* state of the Reset button
    handler,              \* the event handler that ran last or is running
    clicks                \* number of cell clicks since the last reset

vars == << puzzle, fixed_num_locations, row, index, current_row, current_index,
           current_num, pc, raised, puzzle0, lastPick, calls, lastNav,
           backtrack_point, solve_button, reset_button, handler, clicks >>

(***************************************************************************)
(* Constraint extraction.                                                  *)
(***************************************************************************)
\* membership test of a Python list, the list being a function on 0..len-1
InList(x, list) == \E i \in DOMAIN list : list[i] = x

current_col(p, col_num) == [r \in Idx |-> p[r][col_num]]

\* mutant: the row loop of the box stops one row early
current_grid_short(p, row_num, col_num) ==
    LET start_row == row_num - (row_num % B)
        start_col == col_num - (col_num % B)
    IN  [k \in 0 .. (B * (B - 1) - 1) |-> p[start_row + (k \div B)][start_col + (k % B)]]

current_grid(p, row_num, col_num) ==
    LET start_row == row_num - (row_num % B)
        start_col == col_num - (col_num % B)
    IN  [k \in 0 .. (B * B - 1) |-> p[start_row + (k \div B)][start_col + (k % B)]]

(***************************************************************************)
(* Candidate selector.                                                     *)
(***************************************************************************)
\* mutant: the scan forgets the column
RECURSIVE PickScanNoColumn(_, _, _, _)
PickScanNoColumn(puzzle_row, col, grid, chosen_num) ==
    IF InList(chosen_num, puzzle_row) \/ InList(chosen_num, grid)
    THEN PickScanNoColumn(puzzle_row, col, grid, chosen_num + 1)
    ELSE chosen_num

\* mutant: the scan forgets the box
RECURSIVE PickScanNoGrid(_, _, _, _)
PickScanNoGrid(puzzle_row, col, grid, chosen_num) ==
    IF InList(chosen_num, puzzle_row) \/ InList(chosen_num, col)
    THEN PickScanNoGrid(puzzle_row, col, grid, chosen_num + 1)
    ELSE chosen_num

RECURSIVE PickScan(_, _, _, _)
PickScan(puzzle_row, col, grid, chosen_num) ==
    IF InList(chosen_num, puzzle_row) \/ InList(chosen_num, col) \/ InList(chosen_num, grid)
    THEN PickScan(puzzle_row, col, grid, chosen_num + 1)
    ELSE chosen_num

pick_input_num(p, row_num, col_num, chosen_num) ==
    IF chosen_num < Limit
    THEN PickScan(p[row_num], current_col(p, col_num),
                  current_grid(p, row_num, col_num), chosen_num)
    ELSE chosen_num

\* mutant: the target slot itself counts as appearing after
appears_after_or_at(input_row, input_col, target_row, target_col) ==
    IF input_row > target_row THEN TRUE
    ELSE IF input_row = target_row THEN input_col >= target_col
    ELSE FALSE

\* mutant: only the rows are compared
appears_after_rows_only(input_row, input_col, target_row, target_col) ==
    input_row > target_row

appears_after(input_row, input_col, target_row, target_col) ==
    IF input_row > target_row THEN TRUE
    ELSE IF input_row = target_row THEN input_col > target_col
    ELSE FALSE

(***************************************************************************)
(* Editable-slot navigator.  Each loop is modelled by its iterations: the  *)
(* column and row after k passes through the loop body, and the first k at *)
(* which the loop is left, either by `break` or by the KeyError that the   *)
(* lookup fixed_num_locations[row_num] raises on a row that is no key.  A  *)
(* returned row outside DOMAIN fixed stands for that KeyError.             *)
(***************************************************************************)
\* more passes than any scan that starts inside the grid can make
ScanLimit == N * (N + 1)

\* find_previous_slot: col_num = (col_num + 8) % 9, k times
PrevCol(col_num, k) == (col_num + k * (N - 1)) % N
\* find_previous_slot: row_num -= 1 on every pass that lands on column 8
PrevRow(row_num, col_num, k) ==
    row_num - Cardinality({j \in 1 .. k : PrevCol(col_num, j) = N - 1})

\* find_next_slot: col_num = (col_num + 1) % 9, k times
NextCol(col_num, k) == (col_num + k) % N
\* mutant: the row advances on the pass that lands on column 8
NextRowAtEight(row_num, col_num, k) ==
    row_num + Cardinality({j \in 1 .. k : NextCol(col_num, j) = N - 1})

\* find_next_slot: row_num += 1 on every pass that lands on column 0
NextRow(row_num, col_num, k) ==
    row_num + Cardinality({j \in 1 .. k : NextCol(col_num, j) = 0})

\* the loop is left on a pass whose slot is not fixed or whose row is no key
LeavesLoop(fixed, r, c) == r \notin DOMAIN fixed \/ c \notin fixed[r]

\* mutant: one step back, whether or not the slot is fixed
find_previous_slot_no_skip(fixed, row_num, col_num) ==
    [row |-> PrevRow(row_num, col_num, 1), col |-> PrevCol(col_num, 1)]

find_previous_slot(fixed, row_num, col_num) ==
    LET k == CHOOSE k \in 1 .. ScanLimit :
                 /\ LeavesLoop(fixed, PrevRow(row_num, col_num, k), PrevCol(col_num, k))
                 /\ \A j \in 1 .. (k - 1) :
                        ~ LeavesLoop(fixed, PrevRow(row_num, col_num, j), PrevCol(col_num, j))
    IN  [row |-> PrevRow(row_num, col_num, k), col |-> PrevCol(col_num, k)]

find_next_slot(fixed, row_num, col_num) ==
    LET k == CHOOSE k \in 1 .. ScanLimit :
                 /\ LeavesLoop(fixed, NextRow(row_num, col_num, k), NextCol(col_num, k))
                 /\ \A j \in 1 .. (k - 1) :
                        ~ LeavesLoop(fixed, NextRow(row_num, col_num, j), NextCol(col_num, j))
    IN  [row |-> NextRow(row_num, col_num, k), col |-> NextCol(col_num, k)]

(***************************************************************************)
(* Inputs.  The caller (click_solve) passes any grid the user has clicked  *)
(* together; the model draws the grid from a family built on one complete  *)
(* valid Sudoku: a number of trailing cells (row-major) is emptied and     *)
(* optionally one cell is overwritten with another given 1..9 or emptied;   *)
(* or some of the cells HoleCells near the end of the grid are emptied:    *)
(* the first of them then has two candidates, the smaller of which leaves  *)
(* the second without any, one non-fixed cell before the last.             *)
(* fixed_num_locations lists exactly the non-zero cells, as the            *)
(* application maintains it.                                               *)
(***************************************************************************)
Cells == 0 .. (N * N - 1)
Pos(r, c) == r * N + c

Base == [r \in Idx |-> [c \in Idx |-> ((r * B + (r \div B) + c) % N) + 1]]

OverrideCells == {56, 66, 68, 76, 80}

TrailingBlank(n) ==
    [r \in Idx |-> [c \in Idx |-> IF Pos(r, c) >= N * N - n THEN 0 ELSE Base[r][c]]]

Override(g, q, d) ==
    [r \in Idx |-> [c \in Idx |-> IF Pos(r, c) = q THEN d ELSE g[r][c]]]

HoleCells == {64, 67, 73}

Holes(S) == [r \in Idx |-> [c \in Idx |-> IF Pos(r, c) \in S THEN 0 ELSE Base[r][c]]]

Inputs ==
    { TrailingBlank(n) : n \in 0 .. MaxBlank }
    \cup { Override(TrailingBlank(n), q, d) :
             n \in 0 .. MaxOverrideBlank, q \in OverrideCells, d \in 0 .. N }
    \cup { Holes(S) : S \in SUBSET HoleCells }

NonZero(g) == [r \in Idx |-> {c \in Idx : g[r][c] # 0}]

NoException == [type |-> "none", key |-> 0]
KeyError(k) == [type |-> "KeyError", key |-> k]
NoPick == [row |-> 0, col |-> 0, start |-> 0, num |-> 0, site |-> "none", grid |-> Base]
NoNav == [fn |-> "none", row |-> 0, col |-> 0, to_row |-> 0, to_col |-> 0]
NoSlot == [row |-> 0, col |-> 0, set |-> FALSE]

\* tk button states
NORMAL == "normal"
DISABLED == "disabled"

\* the states of the two buttons once the board has been clicked together:
\* display_cell_change enables both on every number shown and disables both
\* when the last number is clicked away
ButtonAfterClicks(g) == IF \A r \in Idx, c \in Idx : g[r][c] = 0 THEN DISABLED ELSE NORMAL

Init ==
    /\ puzzle \in Inputs
    /\ fixed_num_locations = NonZero(puzzle)
    /\ row = 0
    /\ index = 0
    /\ current_row = 0
    /\ current_index = 0
    /\ current_num = 0
    /\ pc = "forward"
    /\ raised = NoException
    /\ puzzle0 = puzzle
    /\ lastPick = NoPick
    /\ calls = 1
    /\ lastNav = NoNav
    /\ backtrack_point = NoSlot
    /\ solve_button = ButtonAfterClicks(puzzle)
    /\ reset_button = ButtonAfterClicks(puzzle)
    /\ handler = "click_solve"
    /\ clicks = 0

(***************************************************************************)
(* The forward pass: the two nested for loops of solve_sudoku.             *)
(***************************************************************************)
\* the for loops move to the next cell, or the function returns
NextIteration ==
    IF index + 1 < N
    THEN /\ index' = index + 1
         /\ row' = row
         /\ pc' = "forward"
    ELSE IF row + 1 < N
    THEN /\ index' = 0
         /\ row' = row + 1
         /\ pc' = "forward"
    ELSE /\ index' = index
         /\ row' = row
         /\ pc' = "returned"

\* mutant: the forward pass tries the digit 9 only
ForwardPickFromNine(p, r, c) == pick_input_num(p, r, c, N)

\* the value written by the forward pass into an empty cell
ForwardPick(p, r, c) == pick_input_num(p, r, c, 1)

\* mutant: the backtrack loop also runs on the digit 9
IsMarkerFromNine(num) == num >= 9

\* the test of the backtrack loop: the cursor holds no digit
IsMarker(num) == num > 9

\* mutant: the marker 10 passes for a digit
IsDigitOrTen(num) == num < 11

\* the test of the re-fill: a digit was found
IsDigit(num) == num < 10

\* one iteration of the inner for loop, up to the test of the while loop
Forward ==
    /\ pc = "forward"
    /\ LET slot == puzzle[row][index]
           num  == IF slot = 0 THEN ForwardPick(puzzle, row, index) ELSE slot
       IN  /\ puzzle' = IF slot = 0
                        THEN [puzzle EXCEPT ![row][index] = num]
                        ELSE puzzle
           /\ lastPick' = IF slot = 0
                          THEN [row |-> row, col |-> index, start |-> 1, num |-> num,
                                site |-> "forward", grid |-> puzzle]
                          ELSE lastPick
           /\ current_row' = row
           /\ current_index' = index
           /\ current_num' = num
           /\ IF IsMarker(num)
              THEN /\ pc' = "backward"
                   /\ UNCHANGED << row, index >>
              ELSE NextIteration
    /\ UNCHANGED << fixed_num_locations, raised, puzzle0, calls, lastNav,
                    backtrack_point, solve_button, reset_button, handler, clicks >>

(***************************************************************************)
(* The backtrack loop: one iteration of `while current_num > 9`, up to the *)
(* call of modify_previous_slots.                                          *)
(***************************************************************************)
\* mutant: the backward step scans again from 1
RepickFromOne(v) == 1

\* mutant: the backward step skips a candidate
RepickSkipsOne(v) == v + 2

\* the digit from which a backward step starts its scan
RepickStart(v) == v + 1

\* mutant: the backward step writes digits only, as the re-fill does
BackwardWriteDigitsOnly(p, r, c, num) ==
    IF num < Limit THEN [p EXCEPT ![r][c] = num] ELSE p

\* the backward step writes what it picked, digit or marker
BackwardWrite(p, r, c, num) == [p EXCEPT ![r][c] = num]

Backward ==
    /\ pc = "backward"
    /\ LET previous_slot == find_previous_slot(fixed_num_locations, current_row, current_index)
       IN  /\ lastNav' = [fn |-> "find_previous_slot",
                          row |-> current_row, col |-> current_index,
                          to_row |-> previous_slot.row, to_col |-> previous_slot.col]
           /\ IF previous_slot.row \notin DOMAIN fixed_num_locations
              THEN /\ pc' = "crashed"
                   /\ raised' = KeyError(previous_slot.row)
                   /\ UNCHANGED << puzzle, current_row, current_index, current_num,
                                   lastPick, backtrack_point >>
              ELSE LET r == previous_slot.row
                       c == previous_slot.col
                       start == RepickStart(puzzle[r][c])
                       num == pick_input_num(puzzle, r, c, start)
                   IN  /\ current_row' = r
                       /\ current_index' = c
                       /\ current_num' = num
                       /\ puzzle' = BackwardWrite(puzzle, r, c, num)
                       /\ lastPick' = [row |-> r, col |-> c, start |-> start, num |-> num,
                                       site |-> "backward", grid |-> puzzle]
                       /\ backtrack_point' = IF IsDigit(num)
                                              THEN [row |-> r, col |-> c, set |-> TRUE]
                                              ELSE backtrack_point
                       /\ pc' = IF IsDigit(num) THEN "refill" ELSE "backward"
                       /\ UNCHANGED raised
    /\ UNCHANGED << fixed_num_locations, row, index, puzzle0, calls,
                    solve_button, reset_button, handler, clicks >>

(***************************************************************************)
(* modify_previous_slots: one iteration of its while loop.  Its locals     *)
(* current_num, current_row, current_slot are the caller's cursor: the     *)
(* caller passes the cursor in and takes the returned triple back.         *)
(***************************************************************************)
Refill ==
    /\ pc = "refill"
    /\ LET next_slot == find_next_slot(fixed_num_locations, current_row, current_index)
       IN  /\ lastNav' = [fn |-> "find_next_slot",
                          row |-> current_row, col |-> current_index,
                          to_row |-> next_slot.row, to_col |-> next_slot.col]
           /\ IF next_slot.row \notin DOMAIN fixed_num_locations
              THEN /\ pc' = "crashed"
                   /\ raised' = KeyError(next_slot.row)
                   /\ UNCHANGED << puzzle, row, index, current_row, current_index,
                                   current_num, lastPick >>
              ELSE LET r == next_slot.row
                       c == next_slot.col
                   IN  /\ current_row' = r
                       /\ current_index' = c
                       /\ UNCHANGED raised
                       /\ IF ~ appears_after(r, c, row, index)
                          THEN LET num == pick_input_num(puzzle, r, c, 1)
                               IN  /\ current_num' = num
                                   /\ puzzle' = IF IsDigit(num)
                                                THEN [puzzle EXCEPT ![r][c] = num]
                                                ELSE puzzle
                                   /\ lastPick' = [row |-> r, col |-> c, start |-> 1,
                                                   num |-> num, site |-> "refill",
                                                   grid |-> puzzle]
                                   /\ pc' = IF IsDigit(num) THEN "refill" ELSE "backward"
                                   /\ UNCHANGED << row, index >>
                          ELSE /\ UNCHANGED << puzzle, current_num, lastPick >>
                               /\ NextIteration
    /\ UNCHANGED << fixed_num_locations, puzzle0, calls, backtrack_point,
                    solve_button, reset_button, handler, clicks >>

(***************************************************************************)
(* The caller invokes solve_sudoku again on the grid it got back, with the *)
(* same fixed_num_locations (click_solve keeps both between calls).        *)
(***************************************************************************)
SolveAgain ==
    /\ pc = "returned"
    /\ calls < MaxCalls
    /\ calls' = calls + 1
    /\ puzzle0' = puzzle
    /\ row' = 0
    /\ index' = 0
    /\ pc' = "forward"
    /\ UNCHANGED << puzzle, fixed_num_locations, current_row, current_index,
                    current_num, raised, lastPick, lastNav, backtrack_point,
                    solve_button, reset_button, handler, clicks >>

Next == Forward \/ Backward \/ Refill \/ SolveAgain

Spec == Init /\ [][Next]_vars

(***************************************************************************)
(* The specification for termination.  The interpreter runs a call to its  *)
(* end: a step that can be taken is not postponed forever.  The inputs are *)
(* the grids with whole trailing rows emptied (the grid without givens     *)
(* among them) and the grids with up to MaxFairBlank trailing cells        *)
(* emptied, with or without the extra given.                               *)
(***************************************************************************)
FairInputs ==
    { TrailingBlank(k * N) : k \in 0 .. N }
    \cup { TrailingBlank(n) : n \in 0 .. MaxFairBlank }
    \cup { Override(TrailingBlank(n), q, d) :
             n \in 0 .. MaxFairBlank, q \in OverrideCells, d \in 0 .. N }

FairInit == Init /\ puzzle \in FairInputs

FairSpec == FairInit /\ [][Next]_vars /\ WF_vars(Next)

(***************************************************************************)
(* The navigators on their own.  find_next_slot and find_previous_slot are *)
(* applied, one call after the other, to a fixed-cell map and a slot; the  *)
(* slot a call returns is the argument of the next call.  The maps hold a  *)
(* run of fixed cells that starts at one of NavStarts (row-major), one     *)
(* free cell and a second run; the runs cross row boundaries and reach the *)
(* first and the last cell of the grid.                                    *)
(***************************************************************************)
NavStarts == {0, 1, 8, 9, 40, 62, 71, 72}

RunFixed(a, l, m) ==
    [r \in Idx |-> {c \in Idx : \/ Pos(r, c) \in a .. (a + l - 1)
                                \/ Pos(r, c) \in (a + l + 1) .. (a + l + m)}]

NavFixed == { RunFixed(a, l, m) : a \in NavStarts, l \in 0 .. MaxRun, m \in 0 .. MaxSecondRun }

\* the board on which exactly the cells of fixed have been clicked to a number
GridOf(fixed) == [r \in Idx |-> [c \in Idx |-> IF c \in fixed[r] THEN Base[r][c] ELSE 0]]

NavInit ==
    /\ fixed_num_locations \in NavFixed
    /\ puzzle = GridOf(fixed_num_locations)
    /\ row = 0
    /\ index = 0
    /\ current_row \in Idx
    /\ current_index \in Idx
    /\ current_num = 0
    /\ pc = "navigate"
    /\ raised = NoException
    /\ puzzle0 = puzzle
    /\ lastPick = NoPick
    /\ calls = 1
    /\ lastNav = NoNav
    /\ backtrack_point = NoSlot
    /\ solve_button = ButtonAfterClicks(puzzle)
    /\ reset_button = ButtonAfterClicks(puzzle)
    /\ handler = "click_solve"
    /\ clicks = 0

\* a call of a navigator from the current slot: the slot it returns becomes
\* the current slot, a KeyError leaves the current slot where it is
Navigate(fn, slot) ==
    /\ pc = "navigate"
    /\ lastNav' = [fn |-> fn, row |-> current_row, col |-> current_index,
                   to_row |-> slot.row, to_col |-> slot.col]
    /\ IF slot.row \notin DOMAIN fixed_num_locations
       THEN /\ raised' = KeyError(slot.row)
            /\ UNCHANGED << current_row, current_index >>
       ELSE /\ raised' = NoException
            /\ current_row' = slot.row
            /\ current_index' = slot.col
    /\ UNCHANGED << puzzle, fixed_num_locations, row, index, current_num, pc, puzzle0,
                    lastPick, calls, backtrack_point, solve_button, reset_button,
                    handler, clicks >>

NavigateNext ==
    Navigate("find_next_slot", find_next_slot(fixed_num_locations, current_row, current_index))

NavigatePrevious ==
    Navigate("find_previous_slot",
             find_previous_slot(fixed_num_locations, current_row, current_index))

NavNext == NavigateNext \/ NavigatePrevious

NavSpec == NavInit /\ [][NavNext]_vars

(***************************************************************************)
(* The application (src/app.py).  The event handlers run one at a time on  *)
(* the tk main loop: a handler starts only when control is idle.           *)
(* click_solve is unfolded into the call of solve_sudoku, the steps of the *)
(* solver above, and the part of the handler that follows the call; when   *)
(* solve_sudoku raises, that part is skipped and the main loop goes on.    *)
(* The runs start from the board as constructed or from a board the user   *)
(* has clicked together.                                                   *)
(***************************************************************************)
\* the cells the user clicks
ClickCells == {<<0, 0>>, <<N - 1, N - 1>>}

EmptyBoard == TrailingBlank(N * N)

\* the empty board, the board with the single number 9 in its first cell, a
\* board that is two cells short of a solution and a board without solution
AppInputs ==
    { EmptyBoard, Override(EmptyBoard, 0, Cycle - 1), TrailingBlank(2),
      Override(TrailingBlank(12), 66, 3) }

puzzle_is_empty(fixed) == \A key \in DOMAIN fixed : fixed[key] = {}

\* the state display_cell_change leaves a button in
display_cell_change(button, fixed, display_num) ==
    IF display_num # 0 THEN NORMAL
    ELSE IF puzzle_is_empty(fixed) THEN DISABLED
    ELSE button

\* the state a button is in after the loop of click_solve has displayed every
\* cell in row-major order: the last call that sets the button decides
DisplayAll(button, fixed, g) ==
    LET setting == {q \in Cells : g[q \div N][q % N] # 0 \/ puzzle_is_empty(fixed)}
    IN  IF setting = {} THEN button
        ELSE LET q == CHOOSE q \in setting : \A p \in setting : p <= q
             IN  display_cell_change(button, fixed, g[q \div N][q % N])

AppInit ==
    /\ puzzle \in AppInputs
    /\ fixed_num_locations = NonZero(puzzle)
    /\ row = 0
    /\ index = 0
    /\ current_row = 0
    /\ current_index = 0
    /\ current_num = 0
    /\ pc = "idle"
    /\ raised = NoException
    /\ puzzle0 = puzzle
    /\ lastPick = NoPick
    /\ calls = 0
    /\ lastNav = NoNav
    /\ backtrack_point = NoSlot
    /\ solve_button = ButtonAfterClicks(puzzle)
    /\ reset_button = ButtonAfterClicks(puzzle)
    /\ handler = IF puzzle = EmptyBoard THEN "reset_puzzle" ELSE "change_cell_num"
    /\ clicks = 0

\* mutant: the reset leaves the lists of fixed_num_locations as they are
reset_puzzle_keeps_lists ==
    /\ pc = "idle"
    /\ puzzle' = [r \in Idx |-> [c \in Idx |-> 0]]
    /\ solve_button' = DISABLED
    /\ reset_button' = DISABLED
    /\ handler' = "reset_puzzle"
    /\ clicks' = 0
    /\ calls' = 0
    /\ UNCHANGED << fixed_num_locations, row, index, current_row, current_index,
                    current_num, pc, raised, puzzle0, lastPick, lastNav, backtrack_point >>

\* reset_puzzle is called by the constructor and by the Reset button; what
\* it does is the same in every state it is called in
reset_puzzle ==
    /\ pc = "idle"
    /\ puzzle' = [r \in Idx |-> [c \in Idx |-> 0]]
    /\ fixed_num_locations' = [r \in Idx |-> {}]
    /\ solve_button' = DISABLED
    /\ reset_button' = DISABLED
    /\ handler' = "reset_puzzle"
    /\ clicks' = 0
    /\ calls' = 0
    /\ UNCHANGED << row, index, current_row, current_index, current_num, pc, raised,
                    puzzle0, lastPick, lastNav, backtrack_point >>

change_cell_num(r, c) ==
    /\ pc = "idle"
    /\ clicks < MaxClicks
    /\ LET new_cell_num == (puzzle[r][c] + 1) % Cycle
           fixed == [fixed_num_locations EXCEPT
                        ![r] = IF new_cell_num # 0 THEN (@ \ {c}) \cup {c} ELSE @ \ {c}]
       IN  /\ puzzle' = [puzzle EXCEPT ![r][c] = new_cell_num]
           /\ fixed_num_locations' = fixed
           /\ solve_button' = display_cell_change(solve_button, fixed, new_cell_num)
           /\ reset_button' = display_cell_change(reset_button, fixed, new_cell_num)
    /\ handler' = "change_cell_num"
    /\ clicks' = clicks + 1
    /\ UNCHANGED << row, index, current_row, current_index, current_num, pc, raised,
                    puzzle0, lastPick, calls, lastNav, backtrack_point >>

ClickCell == \E x \in ClickCells : change_cell_num(x[1], x[2])

\* the Solve button is pressed: click_solve calls solve_sudoku
click_solve ==
    /\ pc = "idle"
    /\ solve_button = NORMAL
    /\ calls < MaxCalls
    /\ calls' = calls + 1
    /\ handler' = "click_solve"
    /\ puzzle0' = puzzle
    /\ row' = 0
    /\ index' = 0
    /\ current_row' = 0
    /\ current_index' = 0
    /\ current_num' = 0
    /\ raised' = NoException
    /\ lastPick' = NoPick
    /\ lastNav' = NoNav
    /\ backtrack_point' = NoSlot
    /\ pc' = "forward"
    /\ UNCHANGED << puzzle, fixed_num_locations, solve_button, reset_button, clicks >>

\* solve_sudoku has returned: click_solve displays every cell and disables
\* the Solve button
click_solve_return ==
    /\ pc = "returned"
    /\ reset_button' = DisplayAll(reset_button, fixed_num_locations, puzzle)
    /\ solve_button' = DISABLED
    /\ pc' = "idle"
    /\ UNCHANGED << puzzle, fixed_num_locations, row, index, current_row, current_index,
                    current_num, raised, puzzle0, lastPick, calls, lastNav,
                    backtrack_point, handler, clicks >>

\* solve_sudoku has raised: the exception leaves click_solve before its loop
click_solve_raise ==
    /\ pc = "crashed"
    /\ pc' = "idle"
    /\ UNCHANGED << puzzle, fixed_num_locations, row, index, current_row, current_index,
                    current_num, raised, puzzle0, lastPick, calls, lastNav,
                    backtrack_point, solve_button, reset_button, handler, clicks >>

AppNext ==
    \/ ClickCell
    \/ click_solve
    \/ Forward
    \/ Backward
    \/ Refill
    \/ click_solve_return
    \/ click_solve_raise
    \/ reset_puzzle

AppSpec == AppInit /\ [][AppNext]_vars

TypeOK ==
    /\ pc \in {"forward", "backward", "refill", "returned", "crashed", "navigate", "idle"}
    /\ row \in Idx /\ index \in Idx
    /\ calls \in 0 .. MaxCalls
    /\ clicks \in 0 .. MaxClicks
    /\ solve_button \in {NORMAL, DISABLED}
    /\ reset_button \in {NORMAL, DISABLED}
    /\ handler \in {"change_cell_num", "click_solve", "reset_puzzle"}

(***************************************************************************)
(* Vocabulary of the properties.                                           *)
(***************************************************************************)
Terminal == {"returned", "crashed"}

RowValues(g, r) == {g[r][c] : c \in Idx} \ {0}
ColumnValues(g, c) == {g[r][c] : r \in Idx} \ {0}
BoxValues(g, r, c) ==
    {g[r2][c2] : r2 \in (r - (r % B)) .. (r - (r % B) + B - 1),
                 c2 \in (c - (c % B)) .. (c - (c % B) + B - 1)} \ {0}
UnitValues(g, r, c) == RowValues(g, r) \cup ColumnValues(g, c) \cup BoxValues(g, r, c)

\* the 27 units, each a set of positions <<r, c>>
Units ==
    { {<<r, c>> : c \in Idx} : r \in Idx }
    \cup { {<<r, c>> : r \in Idx} : c \in Idx }
    \cup { {<<br * B + i, bc * B + j>> : i \in 0 .. (B - 1), j \in 0 .. (B - 1)} :
             br \in 0 .. (B - 1), bc \in 0 .. (B - 1) }

\* every row, column and box holds each digit exactly once
IsSolution(g) == \A u \in Units : {g[x[1]][x[2]] : x \in u} = Digits

\* no two of the cells in `given` that share a unit hold the same value: in
\* every unit the cells of `given` hold as many values as they are cells
NoDuplicate(g, given) ==
    \A u \in Units :
        LET cells == {x \in u : x[2] \in given[x[1]]}
        IN  Cardinality({g[x[1]][x[2]] : x \in cells}) = Cardinality(cells)

\* a well-formed input: fixed is exactly the set of non-zero cells, the givens
\* are digits and no two of them collide
WellFormed(g, fixed) ==
    /\ fixed = NonZero(g)
    /\ \A r \in Idx : \A c \in fixed[r] : g[r][c] \in Digits
    /\ NoDuplicate(g, fixed)

\* g2 fills g without touching its non-zero cells
Extends(g2, g) == \A r \in Idx, c \in Idx : g[r][c] # 0 => g2[r][c] = g[r][c]

EmptyCells(g) == {e \in Idx \X Idx : g[e[1]][e[2]] = 0}

(***************************************************************************)
(* Reference: classical recursive backtracking over the empty cells in     *)
(* row-major order, the candidates of a cell tried in the order `order`.   *)
(***************************************************************************)
Ascending == [k \in 1 .. N |-> k]
Descending == [k \in 1 .. N |-> N + 1 - k]
NoCompletion == [found |-> FALSE, grid |-> Base]

\* the first empty cell at or after pos (row-major), N * N when there is none
NextEmpty(g, pos) ==
    CHOOSE q \in pos .. (N * N) :
        /\ q = N * N \/ g[q \div N][q % N] = 0
        /\ \A p \in pos .. (q - 1) : g[p \div N][p % N] # 0

\* the digits of `order` that are legal at pos, in that order
Candidates(g, pos, order) ==
    SelectSeq(order, LAMBDA d : d \notin UnitValues(g, pos \div N, pos % N))

RECURSIVE RecTry(_, _, _, _, _)
\* pos is an empty cell or N * N; cands[k..] are the candidates left to try
RecTry(g, pos, order, cands, k) ==
    IF pos = N * N THEN [found |-> TRUE, grid |-> g]
    ELSE IF k > Len(cands) THEN NoCompletion
    ELSE LET h == [g EXCEPT ![pos \div N][pos % N] = cands[k]]
             q == NextEmpty(h, pos)
             s == RecTry(h, q, order, Candidates(h, q % (N * N), order), 1)
         IN  IF s.found THEN s ELSE RecTry(g, pos, order, cands, k + 1)

RecSolve(g, order) ==
    LET q == NextEmpty(g, 0)
    IN  RecTry(g, q, order, Candidates(g, q % (N * N), order), 1)

Recursive(g) == RecSolve(g, Ascending)
RecursiveLast(g) == RecSolve(g, Descending)

(***************************************************************************)
(* Properties of the solver.                                               *)
(***************************************************************************)
\* the grid g with the cells before x taken from sol and the cell x set to d
PrefixGrid(g, sol, x, d) ==
    [r \in Idx |-> [c \in Idx |->
        IF Pos(r, c) < Pos(x[1], x[2]) THEN sol[r][c]
        ELSE IF Pos(r, c) = Pos(x[1], x[2]) THEN d
        ELSE g[r][c]]]

\* the smallest digit that is legal at x once the cells before x are as in sol
Greedy(g, sol, x) ==
    LET free == Digits \ UnitValues(PrefixGrid(g, sol, x, 0), x[1], x[2])
    IN  IF free = {} THEN 0 ELSE CHOOSE d \in free : \A e \in free : d <= e

\* C1: for a well-formed input, whenever solve_sudoku returns normally every
\* row, every column and every box holds each digit 1..9 exactly once.
C1_ReturnedGridIsSolution ==
    (pc = "returned" /\ WellFormed(puzzle0, fixed_num_locations)) => IsSolution(puzzle)

C1_Witness ==
    /\ pc = "returned"
    /\ calls = 1
    /\ WellFormed(puzzle0, fixed_num_locations)
    /\ Cardinality(EmptyCells(puzzle0)) >= N
    /\ IsSolution(puzzle)

\* C2: in every state of a run every fixed cell holds the value it had when
\* the call began, and no pick of any of the three write sites targets a
\* fixed position.
C2_FixedCellsNeverWritten ==
    /\ \A r \in Idx : \A c \in fixed_num_locations[r] : puzzle[r][c] = puzzle0[r][c]
    /\ lastPick.site # "none" => lastPick.col \notin fixed_num_locations[lastPick.row]

\* a backward step has just stepped over a fixed cell
C2_Witness ==
    /\ lastPick.site = "backward"
    /\ pc \in {"backward", "refill"}
    /\ lastPick.col + 1 < N
    /\ (lastPick.col + 1) \in fixed_num_locations[lastPick.row]
    /\ puzzle[lastPick.row][lastPick.col] # puzzle0[lastPick.row][lastPick.col]

\* C3: for a well-formed input without a completion the search ends with an
\* explicit Unsolvable outcome; the backward step never indexes the
\* fixed-cell map outside rows 0..8 and the run does not end in a crash.
C3_UnsolvableIsReported ==
    (raised.type = "KeyError" /\ WellFormed(puzzle0, fixed_num_locations))
        => Recursive(puzzle0).found

\* C4: an input whose givens hold two equal digits in one row, column or box
\* is rejected before any search step: no cell is written, nothing is raised.
C4_MalformedIsRejected ==
    \/ (puzzle = puzzle0 /\ raised = NoException /\ lastPick.site = "none")
    \/ NoDuplicate(puzzle0, fixed_num_locations)

\* C5: when control leaves solve_sudoku, by return or by failure, no cell
\* holds an exhaustion marker (a value of 10 or more).
C5_NoMarkerLeaves ==
    pc \in Terminal => \A r \in Idx, c \in Idx : puzzle[r][c] < Limit

\* C6: for a well-formed input with a completion the call returns normally
\* with a completion of the input; a unique completion is returned exactly,
\* and a single empty cell gets the one digit its row, column and box miss.
C6_SolvableIsSolved ==
    (pc \in Terminal /\ WellFormed(puzzle0, fixed_num_locations)
        /\ RecursiveLast(puzzle0).found)
    => /\ pc = "returned"
       /\ raised = NoException
       /\ IsSolution(puzzle)
       /\ Extends(puzzle, puzzle0)
       /\ Recursive(puzzle0).grid = RecursiveLast(puzzle0).grid
            => puzzle = RecursiveLast(puzzle0).grid
       /\ \A x \in EmptyCells(puzzle0) :
            EmptyCells(puzzle0) = {x}
                => /\ {puzzle[x[1]][x[2]]} = Digits \ RowValues(puzzle0, x[1])
                   /\ {puzzle[x[1]][x[2]]} = Digits \ ColumnValues(puzzle0, x[2])
                   /\ {puzzle[x[1]][x[2]]} = Digits \ BoxValues(puzzle0, x[1], x[2])

\* the grid without givens has been solved
C6_Witness ==
    /\ pc = "returned"
    /\ calls = 1
    /\ EmptyCells(puzzle0) = Idx \X Idx
    /\ IsSolution(puzzle)

\* C7: on a well-formed input the pointer walk and classical recursive
\* backtracking (row-major, candidates ascending) have the same outcome: the
\* same grid when a completion exists, which is the lexicographically least
\* completion, and the walk underflows exactly when there is no completion.
C7_SameAsRecursive ==
    (pc \in Terminal /\ WellFormed(puzzle0, fixed_num_locations))
    => LET s == Recursive(puzzle0)
       IN  /\ s.found => /\ pc = "returned"
                         /\ puzzle = s.grid
                         /\ \A x \in EmptyCells(puzzle0) :
                              \A d \in 1 .. (puzzle[x[1]][x[2]] - 1) :
                                 \/ d \in UnitValues(PrefixGrid(puzzle0, puzzle, x, 0), x[1], x[2])
                                 \/ ~ RecursiveLast(PrefixGrid(puzzle0, puzzle, x, d)).found
           /\ ~ s.found => (pc = "crashed" /\ raised = KeyError(-1))

\* a returned grid in which some cell does not hold its greedy digit: the
\* walk had to come back to it
C7_Witness ==
    /\ pc = "returned"
    /\ calls = 1
    /\ WellFormed(puzzle0, fixed_num_locations)
    /\ puzzle = Recursive(puzzle0).grid
    /\ \E x \in EmptyCells(puzzle0) : puzzle[x[1]][x[2]] > Greedy(puzzle0, puzzle, x)

\* C8: every run of solve_sudoku terminates, by returning or by raising.
C8_Terminates == (pc \notin Terminal) ~> (pc \in Terminal)

\* a run that went backward over several cells has ended
C8_Witness ==
    /\ pc \in Terminal
    /\ \E r \in Idx, c \in Idx : puzzle[r][c] > Limit

\* C9: solving a complete valid Sudoku leaves every cell unchanged.
C9_SolvedGridUnchanged ==
    IsSolution(puzzle0) => (puzzle = puzzle0 /\ raised = NoException)

\* the output of a successful solve has been solved a second time
C9_Witness ==
    /\ pc = "returned"
    /\ calls = 2
    /\ IsSolution(puzzle0)
    /\ fixed_num_locations # NonZero(puzzle0)

\* the digits from start up that are legal for the picked cell
FreeDigits(pick) ==
    {d \in Digits : d >= pick.start /\ d \notin UnitValues(pick.grid, pick.row, pick.col)}

\* C10 as stated: every pick of the controller returns a value in 1..10, the
\* smallest legal digit from start up, and exactly 10 when there is none.
C10_PickWithinTen ==
    lastPick.site # "none"
    => /\ lastPick.num \in 1 .. Limit
       /\ FreeDigits(lastPick) # {}
            => (lastPick.num \in FreeDigits(lastPick)
                /\ \A d \in FreeDigits(lastPick) : lastPick.num <= d)
       /\ FreeDigits(lastPick) = {} => lastPick.num = Limit

\* C10 amended: every pick returns the smallest legal digit from start up;
\* when there is none it returns a marker of 10 or more: start itself when
\* start is 10, else the smallest value from 10 up that no cell of the row,
\* column or box holds (11 or more when a marker 10 stands there).
C10_PickContract ==
    lastPick.site # "none"
    => /\ lastPick.num >= 1
       /\ lastPick.start \in 1 .. Limit
       /\ FreeDigits(lastPick) # {}
            => (lastPick.num \in FreeDigits(lastPick)
                /\ \A d \in FreeDigits(lastPick) : lastPick.num <= d)
       /\ FreeDigits(lastPick) = {}
            => /\ lastPick.num >= Limit
               /\ lastPick.start = Limit => lastPick.num = Limit
               /\ lastPick.start < Limit
                    => /\ lastPick.num \notin UnitValues(lastPick.grid, lastPick.row, lastPick.col)
                       /\ \A v \in Limit .. (lastPick.num - 1) :
                            v \in UnitValues(lastPick.grid, lastPick.row, lastPick.col)

\* a re-fill pick on a grid holding markers has returned more than 10
C10_Witness ==
    /\ lastPick.site = "refill"
    /\ lastPick.num > Limit
    /\ Limit \in UnitValues(lastPick.grid, lastPick.row, lastPick.col)

\* the non-fixed cells, as row-major positions
NonFixed(fixed) == {q \in Cells : (q % N) \notin fixed[q \div N]}
\* the non-fixed cells after and before the slot (r, c)
Ahead(fixed, r, c) == {q \in NonFixed(fixed) : q > Pos(r, c)}
Behind(fixed, r, c) == {q \in NonFixed(fixed) : q < Pos(r, c)}
Least(S) == CHOOSE q \in S : \A p \in S : q <= p
Greatest(S) == CHOOSE q \in S : \A p \in S : q >= p

\* C11: whenever a non-fixed cell exists after (before) the slot it is called
\* from, find_next_slot (find_previous_slot) returns the nearest non-fixed
\* cell after (before) that slot in row-major order; the slot returned lies
\* in the grid, is not fixed, and no non-fixed cell lies in between.
C11_NavigatorsNearest ==
    /\ (lastNav.fn = "find_next_slot"
            /\ Ahead(fixed_num_locations, lastNav.row, lastNav.col) # {})
        => /\ lastNav.to_row \in Idx /\ lastNav.to_col \in Idx
           /\ lastNav.to_col \notin fixed_num_locations[lastNav.to_row]
           /\ Pos(lastNav.to_row, lastNav.to_col)
                = Least(Ahead(fixed_num_locations, lastNav.row, lastNav.col))
    /\ (lastNav.fn = "find_previous_slot"
            /\ Behind(fixed_num_locations, lastNav.row, lastNav.col) # {})
        => /\ lastNav.to_row \in Idx /\ lastNav.to_col \in Idx
           /\ lastNav.to_col \notin fixed_num_locations[lastNav.to_row]
           /\ Pos(lastNav.to_row, lastNav.to_col)
                = Greatest(Behind(fixed_num_locations, lastNav.row, lastNav.col))

\* find_next_slot has stepped over a whole row of fixed cells and more
C11_Witness ==
    /\ pc = "navigate"
    /\ lastNav.fn = "find_next_slot"
    /\ lastNav.to_row \in Idx
    /\ lastNav.to_row >= lastNav.row + 2
    /\ Pos(lastNav.to_row, lastNav.to_col) > Pos(lastNav.row, lastNav.col) + N
    /\ lastNav.to_col \notin fixed_num_locations[lastNav.to_row]

\* no cell of the board shows a number
BoardEmpty(g) == \A r \in Idx, c \in Idx : g[r][c] = 0

\* C12: whenever click_solve has invoked solve_sudoku, fixed_num_locations
\* lists exactly the cells that were non-zero in puzzle_nums at the moment of
\* the call.
C12_FixedIsNonZeroAtSolve ==
    pc # "idle" => fixed_num_locations = NonZero(puzzle0)

\* C13: after reset_puzzle every entry of puzzle_nums is 0, every list of
\* fixed_num_locations is empty and both buttons are disabled, whatever state
\* the application was in.
C13_ResetRestoresInitial ==
    handler = "reset_puzzle"
    => /\ BoardEmpty(puzzle)
       /\ \A r \in Idx : fixed_num_locations[r] = {}
       /\ solve_button = DISABLED
       /\ reset_button = DISABLED
       /\ pc = "idle"

\* the board has been reset after a solve that ended in a KeyError and left
\* a marker on the board
C13_Witness ==
    /\ handler = "reset_puzzle"
    /\ raised.type = "KeyError"
    /\ lastPick.num >= Limit
    /\ BoardEmpty(puzzle)
    /\ ~ BoardEmpty(puzzle0)

\* C19: between two handlers puzzle_is_empty() is True exactly when every
\* entry of puzzle_nums is 0, so a click disables the buttons only on a board
\* without numbers.
C19_EmptyIffNoNumber ==
    pc = "idle" => (puzzle_is_empty(fixed_num_locations) <=> BoardEmpty(puzzle))

\* the value of position q is the smallest digit that is legal there once
\* the non-fixed cells from q up to position s are taken off the grid
Rederived(g, fixed, q, s) ==
    LET h == [r \in Idx |-> [c \in Idx |->
                 IF Pos(r, c) \in q .. s /\ c \notin fixed[r] THEN 0 ELSE g[r][c]]]
        free == Digits \ UnitValues(h, q \div N, q % N)
    IN  free # {} /\ g[q \div N][q % N] = Least(free)

\* C14: a step taken in backtrack mode, anchored at the stuck position
\* (row, index), changes no cell after the stuck position; and the step that
\* ends backtrack mode finds a digit in every non-fixed cell from the
\* backtrack point up to the stuck position, each cell after the backtrack
\* point holding the value a pick from 1 gives it, and hands control to the
\* forward pass at the cell after the stuck position.
C14_BacktrackFrame ==
    [][ /\ pc \in {"backward", "refill"}
            => \A r \in Idx, c \in Idx :
                   Pos(r, c) > Pos(row, index) => puzzle'[r][c] = puzzle[r][c]
        /\ (pc = "refill" /\ pc' \in {"forward", "returned"})
            => /\ backtrack_point.set
               /\ \A q \in NonFixed(fixed_num_locations) :
                      (Pos(backtrack_point.row, backtrack_point.col) <= q
                          /\ q <= Pos(row, index))
                      => puzzle'[q \div N][q % N] \in Digits
               /\ \A q \in NonFixed(fixed_num_locations) :
                      (Pos(backtrack_point.row, backtrack_point.col) < q
                          /\ q <= Pos(row, index))
                      => Rederived(puzzle', fixed_num_locations, q, Pos(row, index))
               /\ IF Pos(row, index) = N * N - 1
                  THEN pc' = "returned"
                  ELSE pc' = "forward" /\ Pos(row', index') = Pos(row, index) + 1
      ]_vars

\* backtrack mode has just ended: the forward pass stands on the cell after
\* the stuck position, and three or more non-fixed cells were re-derived
C14_Witness ==
    /\ pc = "forward"
    /\ backtrack_point.set
    /\ lastNav.fn = "find_next_slot"
    /\ lastPick.site = "refill"
    /\ Pos(lastPick.row, lastPick.col) + 1 = Pos(row, index)
    /\ Pos(lastNav.to_row, lastNav.to_col) = Pos(row, index)
    /\ puzzle[row][index] = 0
    /\ Pos(backtrack_point.row, backtrack_point.col) + 3 <= Pos(lastPick.row, lastPick.col)
    /\ \A q \in Pos(backtrack_point.row, backtrack_point.col) .. Pos(lastPick.row, lastPick.col) :
           puzzle[q \div N][q % N] \in Digits

\* C15: a backward step that finds a non-fixed cell before the cursor moves
\* the cursor to the nearest such cell, scans from the value of that cell
\* plus 1 and writes a strictly greater value there, into no other cell; when
\* the value written is a marker the next step is again a backward step.  A
\* backward step raises only when no non-fixed cell lies before the cursor.
C15_BackwardStep ==
    [][ pc = "backward"
        => IF pc' = "crashed"
           THEN Behind(fixed_num_locations, current_row, current_index) = {}
           ELSE /\ Behind(fixed_num_locations, current_row, current_index) # {}
                /\ Pos(current_row', current_index')
                     = Greatest(Behind(fixed_num_locations, current_row, current_index))
                /\ lastPick'.start = puzzle[current_row'][current_index'] + 1
                /\ puzzle'[current_row'][current_index'] > puzzle[current_row'][current_index']
                /\ puzzle'[current_row'][current_index'] = current_num'
                /\ \A r \in Idx, c \in Idx :
                       (r # current_row' \/ c # current_index')
                           => puzzle'[r][c] = puzzle[r][c]
                /\ current_num' > N => pc' = "backward"
                /\ current_num' <= N => pc' = "refill"
      ]_vars

\* two backward steps in a row: the re-pick of the first was exhausted, and
\* the first stepped over fixed cells
C15_Witness ==
    /\ pc = "backward"
    /\ lastPick.site = "backward"
    /\ lastPick.num >= Limit
    /\ lastPick.start \in 2 .. N
    /\ lastNav.fn = "find_previous_slot"
    /\ Pos(lastNav.to_row, lastNav.to_col) + 1 < Pos(lastNav.row, lastNav.col)
    /\ current_row = lastPick.row /\ current_index = lastPick.col

\* no two cells of a unit that hold digits 1..9 hold the same digit: in every
\* unit the cells with digits hold as many digits as they are cells
NoEqualDigits(g) ==
    \A u \in Units :
        LET cells == {x \in u : g[x[1]][x[2]] \in Digits}
        IN  Cardinality({g[x[1]][x[2]] : x \in cells}) = Cardinality(cells)

\* C16: on a well-formed input the stuck position of a backtrack is never
\* the last non-fixed cell, every call of find_next_slot is made from a slot
\* with a non-fixed cell after it and returns a slot in rows 0..8, and no
\* KeyError for row 9 is raised.
C16_NextSlotStaysInGrid ==
    \/ /\ pc \in {"backward", "refill"}
            => Ahead(fixed_num_locations, row, index) # {}
       /\ pc = "refill"
            => Ahead(fixed_num_locations, current_row, current_index) # {}
       /\ lastNav.fn = "find_next_slot"
            => /\ Ahead(fixed_num_locations, lastNav.row, lastNav.col) # {}
               /\ lastNav.to_row \in Idx
       /\ raised # KeyError(N)
    \/ ~ WellFormed(puzzle0, fixed_num_locations)

\* find_next_slot has been called from the stuck position with one single
\* non-fixed cell after it
C16_Witness ==
    /\ lastNav.fn = "find_next_slot"
    /\ pc = "forward"
    /\ WellFormed(puzzle0, fixed_num_locations)
    /\ Pos(lastNav.row, lastNav.col) + 1 = Pos(row, index)
    /\ Cardinality(Ahead(fixed_num_locations, lastNav.row, lastNav.col)) = 1
    /\ lastNav.to_row = N - 1

\* C17: on a well-formed input, whenever the forward pass is about to
\* process the cell (row, index), every cell before it holds a digit 1..9
\* and no two cells that hold digits and share a row, column or box are equal.
C17_ForwardPassInvariant ==
    pc = "forward"
    => \/ /\ \A q \in 0 .. (Pos(row, index) - 1) : puzzle[q \div N][q % N] \in Digits
          /\ NoEqualDigits(puzzle)
       \/ ~ WellFormed(puzzle0, fixed_num_locations)

\* the forward pass goes on in the last row after a backtrack has rewritten
\* cells before it
C17_Witness ==
    /\ pc = "forward"
    /\ calls = 1
    /\ backtrack_point.set
    /\ row = N - 1
    /\ index > 0
    /\ WellFormed(puzzle0, fixed_num_locations)
    /\ puzzle[row][index] = 0
    /\ \E q \in 0 .. (Pos(row, index) - 1) :
           /\ puzzle0[q \div N][q % N] = 0
           /\ puzzle[q \div N][q % N] > Greedy(puzzle0, puzzle, <<q \div N, q % N>>)

\* C18: on a well-formed input, at every pick of a backward step or of the
\* re-fill, each non-fixed cell after the picked cell up to and including the
\* stuck position holds a marker (10 or more), no digit and no 0.
C18_NoStaleDigitAhead ==
    (pc \in {"backward", "refill"} /\ lastPick.site \in {"backward", "refill"})
    => \/ \A q \in NonFixed(fixed_num_locations) :
              (Pos(lastPick.row, lastPick.col) < q /\ q <= Pos(row, index))
                  => lastPick.grid[q \div N][q % N] >= Limit
       \/ ~ WellFormed(puzzle0, fixed_num_locations)

\* a re-fill pick has been made with two or more non-fixed cells between the
\* picked cell and the stuck position
C18_Witness ==
    /\ pc \in {"backward", "refill"}
    /\ lastPick.site = "refill"
    /\ WellFormed(puzzle0, fixed_num_locations)
    /\ Cardinality({q \in NonFixed(fixed_num_locations) :
                       Pos(lastPick.row, lastPick.col) < q /\ q <= Pos(row, index)}) >= 2
    /\ \E q \in NonFixed(fixed_num_locations) :
           /\ Pos(lastPick.row, lastPick.col) < q /\ q <= Pos(row, index)
           /\ lastPick.grid[q \div N][q % N] > Limit

====
